---------------------------- MODULE Spec2Model ----------------------------
(***************************************************************************)
(* condor-git-config: several short-lived processes share one on-disk     *)
(* cache of a git repository (src/condor_git_config.py).  Each process    *)
(* builds a ConfigCache and runs include_configs: it takes the branch's   *)
(* file lock, refreshes the cache when it is outdated, prints the path    *)
(* key and one include line per selected file, and releases the lock.     *)
(*                                                                         *)
(* The file system (metadata file, working directory, lock file) and the  *)
(* wall clock are the shared state; pc is each process's position in      *)
(* include_configs.                                                        *)
(***************************************************************************)
EXTENDS Integers, FiniteSets, Sequences, TLC

\* ------------------------------------------------------------- bounds
MaxTime == 3
MaxAge == 2
MaxFiles == 1
MaxRuns == 2

Procs == {"p1", "p2"}
Uris == {"uriA", "uriB"}
Branches == {"master", "dev", "master/repo"}

\* --max-age is a float: a finite number of seconds, or inf
MaxAges ==
    {[finite |-> TRUE, secs |-> 0], [finite |-> TRUE, secs |-> MaxAge],
     [finite |-> FALSE, secs |-> 0]}

\* the arguments of one invocation (ConfigCache.__init__)
Configs == [git_uri : Uris, branch : Branches, max_age : MaxAges]
NoConfig == [git_uri |-> "", branch |-> "", max_age |-> [finite |-> FALSE, secs |-> 0]]

\* the arguments of one ConfigSelector: three lists of regular expressions
\* and the recurse flag
NoRule == [pattern |-> <<>>, blacklist |-> <<>>, whitelist |-> <<>>, recurse |-> FALSE]

\* invocations on one cache-root and one branch
OneBranch == {c \in Configs : c.branch = "master"}

\* the same, all with one finite max_age
OneBranchOneAge ==
    {c \in OneBranch : c.max_age = [finite |-> TRUE, secs |-> MaxAge]}

\* the same, all with max_age inf
OneBranchInf == {c \in OneBranch : ~c.max_age.finite}

\* invocations for branch master of one repository and for branch
\* master/repo of another, on one cache-root
NestedBranches ==
    {c \in Configs : /\ <<c.git_uri, c.branch>> \in
                           {<<"uriA", "master">>, <<"uriB", "master/repo">>}
                     /\ ~c.max_age.finite}

\* ------------------------------------------------------------ paths
\* A path is the sequence of its components below --cache-path; a
\* component is the sequence of the pieces its name is formatted from.
\* Joining a branch name to a path splits it at every "/"
BranchParts(b) ==
    CASE b = "master" -> <<"master">>
      [] b = "dev" -> <<"dev">>
      [] b = "master/repo" -> <<"master", "repo">>

\* self._work_path = cache_path.resolve() / branch
work_path(b) == [i \in 1..Len(BranchParts(b)) |-> <<BranchParts(b)[i]>>]

\* ConfigCache.abspath
abspath(b, rel) == work_path(b) \o rel

\* ConfigCache.repo_path
repo_path(b, rel) == abspath(b, << <<"repo">> >> \o rel)

\* self._meta_file
meta_file(b) == abspath(b, << <<"cache.json">> >>)

\* the path of f"cache.{branch}.lock" below the work path
lock_file(b) ==
    LET ps == BranchParts(b)
        n == Len(ps)
    IN  abspath(b,
           IF n = 1
           THEN << <<"cache.", ps[1], ".lock">> >>
           ELSE << <<"cache.", ps[1]>> >>
                   \o [i \in 1..(n - 2) |-> <<ps[i + 1]>>]
                   \o << <<ps[n], ".lock">> >>)

\* ------------------------------------------------------------ content
\* A file name is its stem and its extension; a relative path is the
\* sequence of its names.
Name(stem, ext) == [stem |-> stem, ext |-> ext]
GitDir == Name(".git", "")
GitHead == Name("HEAD", "")
BMd == Name("b", "md")
Lnk == Name("lnk", "")
SecretCfg == Name("secret", "cfg")
Sub == Name("sub", "")
YCfg == Name("y", "cfg")

\* the stems in the order str comparison gives their names
StemOrder == <<".git", "HEAD", "b", "lnk", "secret", "sub", "y">>
Rank(n) == CHOOSE i \in 1..Len(StemOrder) : StemOrder[i] = n.stem

Range(q) == {q[i] : i \in 1..Len(q)}

\* what a checkout can put below repo/: files, the files of repo/.git, and
\* a symbolic link lnk -> sub (git tracks no path with a .git component, so
\* .git exists at the top only)
File(path) == [path |-> path, kind |-> "file"]
Dir(path) == [path |-> path, kind |-> "dir"]
OptionalEntries ==
    {File(<<BMd>>), File(<<SecretCfg>>), File(<<Sub, YCfg>>),
     File(<<GitDir, GitHead>>), [path |-> <<Lnk>>, kind |-> "link"]}
LinkTarget == <<Sub>>

\* the entries with the directories that hold them
WithParents(es) ==
    es \cup {Dir(SubSeq(f.path, 1, 1)) : f \in {e \in es : Len(e.path) > 1}}
Trees == {WithParents(es) : es \in SUBSET OptionalEntries}

\* os.DirEntry.is_dir(): a directory, or a link to an existing directory
is_dir(t, e) ==
    \/ e.kind = "dir"
    \/ e.kind = "link" /\ Dir(LinkTarget) \in t

\* the entries of directory dir
Children(t, dir) ==
    {e \in t : Len(e.path) = Len(dir) + 1 /\ SubSeq(e.path, 1, Len(dir)) = dir}
ChildNames(t, dir) == {e.path[Len(e.path)] : e \in Children(t, dir)}
Entry(t, path) == CHOOSE e \in t : e.path = path

\* the orders in which a directory with the names S can be listed
Perms(S) ==
    {q \in [1..Cardinality(S) -> S] : \A i, j \in 1..Cardinality(S) : q[i] = q[j] => i = j}

\* sorted(names): ascending in str order
RECURSIVE sorted(_)
sorted(S) ==
    IF S = {} THEN <<>>
    ELSE LET n == CHOOSE x \in S : \A y \in S : Rank(x) <= Rank(y)
         IN  <<n>> \o sorted(S \ {n})

\* descending order, one of the orders a file system lists names in
RECURSIVE reversed(_)
reversed(S) ==
    IF S = {} THEN <<>>
    ELSE LET n == CHOOSE x \in S : \A y \in S : Rank(x) >= Rank(y)
         IN  <<n>> \o reversed(S \ {n})

\* os.scandir(dir): the names in the order the file system gives them, ord
\* at the top and descending below
scandir(t, ord, dir) ==
    IF dir = <<>> THEN ord ELSE reversed(ChildNames(t, dir))

\* the names of a listing that are (not) directories, in listing order
Listed(t, ord, dir, dirs) ==
    SelectSeq(scandir(t, ord, dir),
              LAMBDA n : is_dir(t, Entry(t, dir \o <<n>>)) = dirs)

\* __iter__ that walks into .git as into any directory
dir_names_keep_git(t, ord, dir) ==
    sorted(Range(Listed(t, ord, dir, TRUE)))

\* __iter__: dir_names of os.walk after remove(".git") and sort()
dir_names(t, ord, dir) ==
    sorted(Range(Listed(t, ord, dir, TRUE)) \ {GitDir})

\* __iter__ that takes file_names as os.walk lists them
file_names_unsorted(t, ord, dir) ==
    Listed(t, ord, dir, FALSE)

\* __iter__: sorted(file_names)
file_names(t, ord, dir) ==
    sorted(Range(Listed(t, ord, dir, FALSE)))

\* the paths dir / file_name not yet in seen, appended to it
RECURSIVE yield_files(_, _, _)
yield_files(seen, dir, names) ==
    IF names = <<>> THEN seen
    ELSE LET rel_path == dir \o <<names[1]>>
         IN  yield_files(IF rel_path \in Range(seen) THEN seen
                         ELSE Append(seen, rel_path),
                         dir, Tail(names))

\* os.walk(top-down, followlinks=False) from dir with the loop body of
\* __iter__: the files of dir, then each directory of dir_names that is no
\* link, in order.  seen is the sequence of the paths yielded so far
RECURSIVE walk(_, _, _, _), walk_dirs(_, _, _, _, _)
walk(t, ord, dir, seen) ==
    walk_dirs(t, ord, dir, dir_names(t, ord, dir),
              yield_files(seen, dir, file_names(t, ord, dir)))
walk_dirs(t, ord, dir, names, seen) ==
    IF names = <<>> THEN seen
    ELSE LET sub == dir \o <<names[1]>>
         IN  walk_dirs(t, ord, dir, Tail(names),
                       IF Entry(t, sub).kind = "link" THEN seen
                       ELSE walk(t, ord, sub, seen))

\* ConfigCache.__iter__
iter(t, ord) == walk(t, ord, <<>>, <<>>)

\* ------------------------------------------------------------ selection
\* regular expressions: \.cfg$, secret, .* and (?!)
CfgRe == [kind |-> "ext", text |-> "cfg"]
SecretRe == [kind |-> "stem", text |-> "secret"]
AnyRe == [kind |-> "all", text |-> ""]
NeverRe == [kind |-> "none", text |-> ""]

\* re.search of one expression in str(rel_path)
search_one(re, rel_path) ==
    CASE re.kind = "ext" -> rel_path[Len(rel_path)].ext = re.text
      [] re.kind = "stem" -> \E i \in 1..Len(rel_path) : rel_path[i].stem = re.text
      [] re.kind = "all" -> TRUE
      [] OTHER -> FALSE

\* a compiled pattern is the sequence of its alternatives
search(compiled, rel_path) ==
    \E i \in 1..Len(compiled) : search_one(compiled[i], rel_path)

\* ConfigSelector._prepare_re
prepare_re(pieces, default) ==
    IF pieces = <<>> THEN <<default>> ELSE pieces

\* ConfigSelector.__init__
ConfigSelector(r) ==
    [pattern |-> prepare_re(r.pattern, AnyRe),
     blacklist |-> prepare_re(r.blacklist, NeverRe),
     whitelist |-> prepare_re(r.whitelist, AnyRe),
     recurse |-> r.recurse]

\* get_paths in which a whitelist match also overrides the pattern
RECURSIVE get_paths_whitelist_first(_, _)
get_paths_whitelist_first(sel, paths) ==
    IF paths = <<>> THEN <<>>
    ELSE LET rel_path == paths[1]
             rest == get_paths_whitelist_first(sel, Tail(paths))
         IN  IF ~sel.recurse /\ Len(rel_path) # 1 THEN rest
             ELSE IF \/ search(sel.pattern, rel_path) /\ ~search(sel.blacklist, rel_path)
                     \/ search(sel.whitelist, rel_path)
                  THEN <<repo_path("master", rel_path)>> \o rest
                  ELSE rest

\* ConfigSelector.get_paths over the paths the cache yields
RECURSIVE get_paths(_, _)
get_paths(sel, paths) ==
    IF paths = <<>> THEN <<>>
    ELSE LET rel_path == paths[1]
             rest == get_paths(sel, Tail(paths))
         IN  IF ~sel.recurse /\ Len(rel_path) # 1 THEN rest
             ELSE IF search(sel.pattern, rel_path)
                  THEN IF ~search(sel.blacklist, rel_path) \/ search(sel.whitelist, rel_path)
                       THEN <<repo_path("master", rel_path)>> \o rest
                       ELSE rest
                  ELSE rest

\* the command lines of the selection
PieceLists == {<<>>, <<CfgRe>>, <<SecretRe>>, <<CfgRe, SecretRe>>}
Rules ==
    [pattern : PieceLists, blacklist : PieceLists, whitelist : PieceLists,
     recurse : BOOLEAN]

VARIABLES
    now,        \* time.time()
    lock,       \* lock[b]: the processes holding the flock on cache.<b>.lock
    meta,       \* meta[b]: the content of <cache>/<b>/cache.json
    repo,       \* repo[b]: the working directory <cache>/<b>/repo
    choices,    \* the command lines the scheduler starts the tool with
    pc,         \* pc[p]: position of process p in include_configs
    cfg,        \* cfg[p]: the ConfigCache fields of process p
    status,     \* status[p]: how the invocation of p ended (or "running")
    emitted,    \* emitted[p]: number of lines printed to destination
    fetches,    \* fetches[p]: git subprocesses started by this invocation
    lastFailed, \* lastFailed[b]: config of the invocation whose refresh
                \* failed last, until the next staleness check on b
    tree,       \* the entries below one content root (selection runs)
    rule,       \* the arguments of one ConfigSelector
    runs        \* the results of the get_paths runs made so far

cacheVars == <<now, lock, meta, repo, choices, pc, cfg, status, emitted, fetches, lastFailed>>
selVars == <<tree, rule, runs>>
vars == <<cacheVars, selVars>>

\* ------------------------------------------------------------ file system
\* cache.json: missing, opened for writing and not yet dumped, or a record
NoMeta == [kind |-> "absent"]
Truncated == [kind |-> "truncated"]
Record(uri, br, t) ==
    [kind |-> "record", git_uri |-> uri, branch |-> br, timestamp |-> t]

\* repo/: whether repo/.git exists, the remote it was cloned from, whether
\* the work tree is empty, a complete checkout or a broken one, and whether
\* a git clone into it ever succeeded
EmptyRepo == [git |-> FALSE, origin |-> "", tree |-> "empty", cloned |-> FALSE]
Cloned(uri) == [git |-> TRUE, origin |-> uri, tree |-> "complete", cloned |-> TRUE]
Broken(r, uri) ==
    [git |-> TRUE, origin |-> IF r.git THEN r.origin ELSE uri, tree |-> "partial",
     cloned |-> r.cloned]

\* number of files the selector yields from a work tree
Selected(r) ==
    CASE r.tree = "complete" -> MaxFiles
      [] r.tree = "partial" -> MaxFiles - 1
      [] OTHER -> 0

InScopePcs == {"refresh", "clone", "pull", "meta_open", "meta_dump",
               "print_key", "iterate", "exit"}

TypeOK ==
    /\ now \in 0..MaxTime
    /\ lock \in [Branches -> SUBSET Procs]
    /\ \A b \in Branches :
          /\ meta[b].kind \in {"absent", "truncated", "record"}
          /\ repo[b].tree \in {"empty", "partial", "complete"}
    /\ pc \in [Procs -> {"idle", "acquire", "done"} \cup InScopePcs]
    /\ emitted \in [Procs -> 0..(MaxFiles + 1)]
    /\ fetches \in [Procs -> 0..1]

\* an empty cache-root, no process started yet
CacheInit(cs) ==
    /\ now = 0
    /\ lock = [b \in Branches |-> {}]
    /\ meta = [b \in Branches |-> NoMeta]
    /\ repo = [b \in Branches |-> EmptyRepo]
    /\ choices = cs
    /\ pc = [p \in Procs |-> "idle"]
    /\ cfg = [p \in Procs |-> NoConfig]
    /\ status = [p \in Procs |-> "none"]
    /\ emitted = [p \in Procs |-> 0]
    /\ fetches = [p \in Procs |-> 0]
    /\ lastFailed = [b \in Branches |-> NoConfig]

InitWith(cs) ==
    /\ CacheInit(cs)
    /\ tree = {}
    /\ rule = NoRule
    /\ runs = <<>>

Init == InitWith(OneBranch)

\* ------------------------------------------------------------ helpers
\* self._cache_lock.is_locked
is_locked(p) == cfg[p] # NoConfig /\ p \in lock[cfg[p].branch]

\* an exception leaves the with block: __exit__ runs next
Raise(p, err) ==
    /\ pc' = [pc EXCEPT ![p] = "exit"]
    /\ status' = [status EXCEPT ![p] = err]

\* outdated with the age test made strict (stale only when older than max_age)
outdatedStrict(m, c, t) ==
    CASE m.kind = "absent" -> "stale"
      [] m.kind = "truncated" -> "JSONDecodeError"
      [] OTHER ->
           IF m.git_uri # c.git_uri \/ m.branch # c.branch
           THEN "RuntimeError"
           ELSE IF c.max_age.finite /\ m.timestamp + c.max_age.secs < t
                THEN "stale"
                ELSE "fresh"

\* outdated without the comparison of the recorded identity
outdatedNoGuard(m, c, t) ==
    CASE m.kind = "absent" -> "stale"
      [] m.kind = "truncated" -> "JSONDecodeError"
      [] OTHER ->
           IF c.max_age.finite /\ m.timestamp + c.max_age.secs <= t
           THEN "stale"
           ELSE "fresh"

\* outdated that adds max_age as a number of seconds, inf counting as none
outdatedInfAsZero(m, c, t) ==
    CASE m.kind = "absent" -> "stale"
      [] m.kind = "truncated" -> "JSONDecodeError"
      [] OTHER ->
           IF m.git_uri # c.git_uri \/ m.branch # c.branch
           THEN "RuntimeError"
           ELSE IF m.timestamp + c.max_age.secs <= t
                THEN "stale"
                ELSE "fresh"

\* ConfigCache.outdated: True, False, or the exception raised
outdated(m, c, t) ==
    CASE m.kind = "absent" -> "stale"
      [] m.kind = "truncated" -> "JSONDecodeError"
      [] OTHER ->
           IF m.git_uri # c.git_uri \/ m.branch # c.branch
           THEN "RuntimeError"
           ELSE IF c.max_age.finite /\ m.timestamp + c.max_age.secs <= t
                THEN "stale"
                ELSE "fresh"

\* ------------------------------------------------------------ actions
\* main: the scheduler starts the tool; ConfigCache.__init__
Start(p) ==
    /\ pc[p] \in {"idle", "done"}
    /\ \E c \in choices :
          cfg' = [cfg EXCEPT ![p] = c]
    /\ pc' = [pc EXCEPT ![p] = "acquire"]
    /\ status' = [status EXCEPT ![p] = "running"]
    /\ emitted' = [emitted EXCEPT ![p] = 0]
    /\ fetches' = [fetches EXCEPT ![p] = 0]
    /\ UNCHANGED <<now, lock, meta, repo, choices, selVars, lastFailed>>

\* __enter__ that does not wait for the holder (a lock that excludes nobody)
EnterNoWait(p) ==
    /\ pc[p] = "acquire"
    /\ lock' = [lock EXCEPT ![cfg[p].branch] = @ \cup {p}]
    /\ pc' = [pc EXCEPT ![p] = "refresh"]
    /\ UNCHANGED <<now, meta, repo, choices, selVars, cfg, status, emitted, fetches, lastFailed>>

\* ConfigCache.__enter__: FileLock.acquire blocks until the lock is free
Enter(p) ==
    /\ pc[p] = "acquire"
    /\ lock[cfg[p].branch] = {}
    /\ lock' = [lock EXCEPT ![cfg[p].branch] = @ \cup {p}]
    /\ pc' = [pc EXCEPT ![p] = "refresh"]
    /\ UNCHANGED <<now, meta, repo, choices, selVars, cfg, status, emitted, fetches, lastFailed>>

\* refresh without the early return: fetches also when the cache is fresh
RefreshNoReturn(p) ==
    LET b == cfg[p].branch
        res == outdated(meta[b], cfg[p], now)
    IN  /\ pc[p] = "refresh"
        /\ IF ~is_locked(p) THEN Raise(p, "AssertionError")
           ELSE IF res \in {"fresh", "stale"}
                THEN /\ pc' = [pc EXCEPT ![p] =
                               IF repo[b].git THEN "pull" ELSE "clone"]
                     /\ UNCHANGED status
           ELSE Raise(p, res)
        /\ lastFailed' = [lastFailed EXCEPT ![b] = NoConfig]
        /\ UNCHANGED <<now, lock, meta, repo, choices, selVars, cfg, emitted, fetches>>

\* refresh that pulls when cache.json exists and clones otherwise
RefreshByMetadata(p) ==
    LET b == cfg[p].branch
        res == outdated(meta[b], cfg[p], now)
    IN  /\ pc[p] = "refresh"
        /\ IF ~is_locked(p) THEN Raise(p, "AssertionError")
           ELSE IF res = "fresh"
                THEN /\ pc' = [pc EXCEPT ![p] = "print_key"]
                     /\ UNCHANGED status
           ELSE IF res = "stale"
                THEN /\ pc' = [pc EXCEPT ![p] =
                               IF meta[b].kind = "record" THEN "pull" ELSE "clone"]
                     /\ UNCHANGED status
           ELSE Raise(p, res)
        /\ lastFailed' = [lastFailed EXCEPT ![b] = NoConfig]
        /\ UNCHANGED <<now, lock, meta, repo, choices, selVars, cfg, emitted, fetches>>

\* ConfigCache.refresh up to the choice between git clone and git pull
Refresh(p) ==
    LET b == cfg[p].branch
        res == outdated(meta[b], cfg[p], now)
    IN  /\ pc[p] = "refresh"
        /\ IF ~is_locked(p) THEN Raise(p, "AssertionError")
           ELSE IF res = "fresh"
                THEN /\ pc' = [pc EXCEPT ![p] = "print_key"]
                     /\ UNCHANGED status
           ELSE IF res = "stale"
                THEN /\ pc' = [pc EXCEPT ![p] =
                               IF repo[b].git THEN "pull" ELSE "clone"]
                     /\ UNCHANGED status
           ELSE Raise(p, res)
        /\ lastFailed' = [lastFailed EXCEPT ![b] = NoConfig]
        /\ UNCHANGED <<now, lock, meta, repo, choices, selVars, cfg, emitted, fetches>>

\* a refresh that stamps cache.json although git failed
FetchFailsStampsMeta(p) ==
    LET b == cfg[p].branch
    IN  /\ \E r \in {repo[b], Broken(repo[b], cfg[p].git_uri)} :
              repo' = [repo EXCEPT ![b] = r]
        /\ Raise(p, "refresh_failed")
        /\ lastFailed' = [lastFailed EXCEPT ![b] = cfg[p]]
        /\ meta' = [meta EXCEPT ![b] = Record(cfg[p].git_uri, cfg[p].branch, now)]

\* a failed git subprocess (timeout or nonzero exit) leaves the work tree
\* as it was or half written; nothing cleans it up
FetchFails(p) ==
    LET b == cfg[p].branch
    IN  /\ \E r \in {repo[b], Broken(repo[b], cfg[p].git_uri)} :
              repo' = [repo EXCEPT ![b] = r]
        /\ Raise(p, "refresh_failed")
        /\ lastFailed' = [lastFailed EXCEPT ![b] = cfg[p]]
        /\ UNCHANGED meta

\* git clone --branch <branch> <git_uri> repo
Clone(p) ==
    LET b == cfg[p].branch
    IN  /\ pc[p] = "clone"
        /\ fetches' = [fetches EXCEPT ![p] = @ + 1]
        /\ \/ /\ repo' = [repo EXCEPT ![b] = Cloned(cfg[p].git_uri)]
              /\ pc' = [pc EXCEPT ![p] = "meta_open"]
              /\ UNCHANGED <<status, meta, lastFailed>>
           \/ FetchFails(p)
        /\ UNCHANGED <<now, lock, choices, selVars, cfg, emitted>>

\* git pull in repo: updates from the remote the work tree was cloned from
Pull(p) ==
    LET b == cfg[p].branch
    IN  /\ pc[p] = "pull"
        /\ fetches' = [fetches EXCEPT ![p] = @ + 1]
        /\ \/ /\ pc' = [pc EXCEPT ![p] = "meta_open"]
              /\ UNCHANGED <<status, meta, repo, lastFailed>>
           \/ FetchFails(p)
        /\ UNCHANGED <<now, lock, choices, selVars, cfg, emitted>>

\* _update_metadata: open(self._meta_file, "w") creates or truncates the file
UpdateMetadataOpen(p) ==
    LET b == cfg[p].branch
    IN  /\ pc[p] = "meta_open"
        /\ IF ~is_locked(p)
           THEN Raise(p, "AssertionError") /\ UNCHANGED meta
           ELSE /\ meta' = [meta EXCEPT ![b] = Truncated]
                /\ pc' = [pc EXCEPT ![p] = "meta_dump"]
                /\ UNCHANGED status
        /\ UNCHANGED <<now, lock, repo, choices, selVars, cfg, emitted, fetches, lastFailed>>

\* _update_metadata: json.dump of the identity and time.time(), then close
UpdateMetadataDump(p) ==
    LET b == cfg[p].branch
    IN  /\ pc[p] = "meta_dump"
        /\ meta' = [meta EXCEPT ![b] = Record(cfg[p].git_uri, cfg[p].branch, now)]
        /\ pc' = [pc EXCEPT ![p] = "print_key"]
        /\ UNCHANGED <<now, lock, repo, choices, selVars, cfg, status, emitted, fetches, lastFailed>>

\* include_configs with the loop over get_paths placed after the with block
PrintKeyLeavesScope(p) ==
    /\ pc[p] = "print_key"
    /\ \/ /\ emitted' = [emitted EXCEPT ![p] = 1]
          /\ pc' = [pc EXCEPT ![p] = "iterate"]
          /\ lock' = [lock EXCEPT ![cfg[p].branch] = @ \ {p}]
          /\ UNCHANGED status
       \/ Raise(p, "OSError") /\ UNCHANGED <<emitted, lock>>
    /\ UNCHANGED <<now, meta, repo, choices, selVars, cfg, fetches, lastFailed>>

\* include_configs: print("%s = %s" % (path_key, repo_path)); print may raise
PrintKey(p) ==
    /\ pc[p] = "print_key"
    /\ \/ /\ emitted' = [emitted EXCEPT ![p] = 1]
          /\ pc' = [pc EXCEPT ![p] = "iterate"]
          /\ UNCHANGED status
       \/ Raise(p, "OSError") /\ UNCHANGED emitted
    /\ UNCHANGED <<now, lock, meta, repo, choices, selVars, cfg, fetches, lastFailed>>

\* include_configs: one turn of the loop over get_paths (ConfigCache.__iter__
\* is consumed lazily), or the end of the loop
Iterate(p) ==
    LET b == cfg[p].branch
    IN  /\ pc[p] = "iterate"
        /\ IF ~is_locked(p) THEN Raise(p, "AssertionError") /\ UNCHANGED emitted
           ELSE IF emitted[p] - 1 < Selected(repo[b])
                THEN \/ /\ emitted' = [emitted EXCEPT ![p] = @ + 1]
                        /\ UNCHANGED <<pc, status>>
                     \/ Raise(p, "OSError") /\ UNCHANGED emitted
           ELSE /\ pc' = [pc EXCEPT ![p] = "exit"]
                /\ status' = [status EXCEPT ![p] = "ok"]
                /\ UNCHANGED emitted
        /\ UNCHANGED <<now, lock, meta, repo, choices, selVars, cfg, fetches, lastFailed>>

\* __exit__ that releases the lock only when the block ended normally
ExitKeepsLockOnError(p) ==
    /\ pc[p] = "exit"
    /\ lock' = [lock EXCEPT ![cfg[p].branch] =
                   IF status[p] = "ok" THEN @ \ {p} ELSE @]
    /\ pc' = [pc EXCEPT ![p] = "done"]
    /\ cfg' = [cfg EXCEPT ![p] = NoConfig]
    /\ UNCHANGED <<now, meta, repo, choices, selVars, status, emitted, fetches, lastFailed>>

\* ConfigCache.__exit__: release, then the exception (if any) propagates
\* and the process ends
Exit(p) ==
    /\ pc[p] = "exit"
    /\ lock' = [lock EXCEPT ![cfg[p].branch] = @ \ {p}]
    /\ pc' = [pc EXCEPT ![p] = "done"]
    /\ cfg' = [cfg EXCEPT ![p] = NoConfig]
    /\ UNCHANGED <<now, meta, repo, choices, selVars, status, emitted, fetches, lastFailed>>

\* the process is killed; the operating system drops its flock.  Killed
\* while git runs, the work tree may be left half written
Crash(p) ==
    LET b == cfg[p].branch
    IN  /\ pc[p] \in InScopePcs \cup {"acquire"}
        /\ lock' = [lock EXCEPT ![b] = @ \ {p}]
        /\ pc' = [pc EXCEPT ![p] = "done"]
        /\ status' = [status EXCEPT ![p] = "killed"]
        /\ cfg' = [cfg EXCEPT ![p] = NoConfig]
        /\ IF pc[p] \in {"clone", "pull"}
           THEN \E r \in {repo[b], Broken(repo[b], cfg[p].git_uri)} :
                    repo' = [repo EXCEPT ![b] = r]
           ELSE UNCHANGED repo
        /\ UNCHANGED <<now, meta, choices, selVars, emitted, fetches, lastFailed>>

\* the wall clock advances
Tick ==
    /\ now < MaxTime
    /\ now' = now + 1
    /\ UNCHANGED <<lock, meta, repo, choices, selVars, pc, cfg, status, emitted, fetches, lastFailed>>

\* the steps of include_configs once the lock is held
Proceed(p) ==
    \/ Refresh(p)
    \/ Clone(p)
    \/ Pull(p)
    \/ UpdateMetadataOpen(p)
    \/ UpdateMetadataDump(p)
    \/ PrintKey(p)
    \/ Iterate(p)
    \/ Exit(p)

Next ==
    \/ Tick
    \/ \E p \in Procs :
          \/ Start(p)
          \/ Enter(p)
          \/ Proceed(p)
          \/ Crash(p)

Spec == Init /\ [][Next]_vars

\* every process that holds the lock keeps running until it has left the
\* with block (single-threaded, git bounded by timeout=30)
FairSpec ==
    /\ InitWith(OneBranchOneAge)
    /\ [][Next]_vars
    /\ \A p \in Procs : WF_vars(Proceed(p))


\* every invocation runs with --max-age inf
InfSpec == InitWith(OneBranchInf) /\ [][Next]_vars

\* invocations on two branches of one cache-root, one named inside the other
BranchSpec == InitWith(NestedBranches) /\ [][Next]_vars

\* the selection alone: a populated repo/ and a ConfigSelector
SelInit ==
    /\ CacheInit({})
    /\ tree \in Trees
    /\ rule \in Rules
    /\ runs = <<>>

\* the loop of include_configs over get_paths, run once more; the file
\* system lists the top directory in any order
Select ==
    /\ Len(runs) < MaxRuns
    /\ \E ord \in Perms(ChildNames(tree, <<>>)) :
          runs' = Append(runs, [paths |-> iter(tree, ord),
                                out |-> get_paths(ConfigSelector(rule), iter(tree, ord))])
    /\ UNCHANGED <<tree, rule, cacheVars>>

\* a refresh changes the content of repo/; the runs start again
Update ==
    /\ \E t \in Trees \ {tree} : tree' = t
    /\ runs' = <<>>
    /\ UNCHANGED <<rule, cacheVars>>

SelNext == Select \/ Update

SelSpec == SelInit /\ [][SelNext]_vars

\* ------------------------------------------------------------ properties
Branch(p) == cfg[p].branch
InScope(p) == pc[p] \in InScopePcs

\* the positions at which the code reads or writes cache.json or repo/
Accessing(p) ==
    pc[p] \in {"refresh", "clone", "pull", "meta_open", "meta_dump", "iterate"}

\* process p performs the staleness check of refresh in this step
RefreshStep(p) ==
    pc[p] = "refresh" /\ pc'[p] \in {"print_key", "clone", "pull", "exit"}

\* process p runs git clone or git pull in this step
FetchStep(p) ==
    pc[p] \in {"clone", "pull"} /\ fetches'[p] = fetches[p] + 1

\* cache.json holds a complete record written by the identity of p
OwnRecord(p) ==
    /\ meta[Branch(p)].kind = "record"
    /\ meta[Branch(p)].git_uri = cfg[p].git_uri
    /\ meta[Branch(p)].branch = cfg[p].branch

\* C1: at most one process is between __enter__ and __exit__ of a branch at
\* any time, and a process passes __enter__ only when no other process
\* holds the lock of its branch (it waits until the holder has released).
C1_MutualExclusion ==
    /\ [](\A b \in Branches : Cardinality(lock[b]) <= 1)
    /\ [](\A p, q \in Procs :
             (p # q /\ InScope(p) /\ InScope(q)) => Branch(p) # Branch(q))
    /\ [][\A p \in Procs :
             (pc[p] = "acquire" /\ pc'[p] = "refresh")
                => \A q \in Procs \ {p} : ~(InScope(q) /\ Branch(q) = Branch(p))]_vars

\* one process is inside the with block while another one waits in
\* __enter__ for the same branch
C1_Witness ==
    \E p, q \in Procs :
        /\ p # q
        /\ pc[p] = "clone" /\ p \in lock[Branch(p)]
        /\ pc[q] = "acquire" /\ Branch(q) = Branch(p)

\* C2: every read and write of cache.json and of repo/ (outdated,
\* _update_metadata, git clone/pull, the lazy traversal) is made by a process
\* that holds the branch lock: no assertion on is_locked fails, and the
\* files of a branch change only in steps of the lock holder.
C2_AccessUnderLock ==
    /\ [](\A p \in Procs :
             /\ Accessing(p) => is_locked(p)
             /\ status[p] # "AssertionError")
    /\ [][\A b \in Branches :
             (meta'[b] # meta[b] \/ repo'[b] # repo[b])
                => \E p \in lock[b] : Branch(p) = b /\ Accessing(p) /\ pc'[p] # pc[p]]_vars

\* a process is in the middle of the traversal, after its refresh wrote
\* the metadata
C2_Witness ==
    \E p \in Procs :
        /\ pc[p] = "iterate" /\ emitted[p] = 1 /\ fetches[p] = 1
        /\ is_locked(p) /\ OwnRecord(p)

\* C3: once a refresh has written timestamp T, no process with that identity
\* and a finite max_age starts git clone or git pull while now < T + max_age.
C3_RefreshAtMostOncePerMaxAge ==
    [][\A p \in Procs :
          (FetchStep(p) /\ OwnRecord(p) /\ cfg[p].max_age.finite)
             => meta[Branch(p)].timestamp + cfg[p].max_age.secs <= now]_vars

\* two processes raced on a stale cache: one fetched and wrote the
\* timestamp, the other then passed refresh without fetching
C3_Witness ==
    \E p, q \in Procs :
        /\ p # q
        /\ pc[p] = "done" /\ status[p] = "ok" /\ fetches[p] = 1
        /\ pc[q] = "print_key" /\ fetches[q] = 0
        /\ cfg[q].max_age = [finite |-> TRUE, secs |-> MaxAge]
        /\ OwnRecord(q) /\ meta[Branch(q)].timestamp = now

\* C4: a refresh called less than max_age after a successful refresh of the
\* same identity is a no-op: it starts no git subprocess, raises nothing and
\* leaves cache.json and repo/ as they are.
C4_IdempotentRefresh ==
    [][\A p \in Procs :
          (/\ RefreshStep(p)
           /\ OwnRecord(p)
           /\ (cfg[p].max_age.finite
                  => now < meta[Branch(p)].timestamp + cfg[p].max_age.secs))
             => /\ pc'[p] = "print_key"
                /\ status'[p] = "running"
                /\ fetches'[p] = 0
                /\ meta' = meta
                /\ repo' = repo]_vars

\* a second invocation passed refresh without fetching, one second after
\* the refresh that wrote the record
C4_Witness ==
    \E p \in Procs :
        /\ pc[p] = "print_key" /\ fetches[p] = 0
        /\ cfg[p].max_age = [finite |-> TRUE, secs |-> MaxAge]
        /\ OwnRecord(p)
        /\ meta[Branch(p)].timestamp < now
        /\ now < meta[Branch(p)].timestamp + MaxAge

\* C5: when cache.json records another (git_uri, branch) than the invoking
\* ConfigCache, outdated raises RuntimeError: refresh starts no git
\* subprocess, cache.json and repo/ stay as they were, nothing is printed,
\* and the lock is released by __exit__.
C5_IdentityGuard ==
    /\ [][\A p \in Procs :
             (/\ RefreshStep(p)
              /\ meta[Branch(p)].kind = "record"
              /\ ~OwnRecord(p))
                => /\ pc'[p] = "exit"
                   /\ status'[p] = "RuntimeError"
                   /\ meta' = meta
                   /\ repo' = repo]_vars
    /\ [](\A p \in Procs :
             status[p] = "RuntimeError"
                => /\ pc[p] \in {"exit", "done"}
                   /\ emitted[p] = 0
                   /\ fetches[p] = 0
                   /\ (pc[p] = "done" => \A b \in Branches : p \notin lock[b]))
    /\ [][\A p \in Procs :
             (status[p] = "RuntimeError" /\ pc[p] = "exit" /\ pc'[p] # "exit")
                => /\ pc'[p] = "done"
                   /\ p \notin lock'[Branch(p)]
                   /\ meta' = meta
                   /\ repo' = repo]_vars

\* an invocation for another git_uri ended with RuntimeError and released
\* the lock, the record of the first identity still in place
C5_Witness ==
    \E p \in Procs :
        /\ status[p] = "RuntimeError" /\ pc[p] = "done"
        /\ meta["master"].kind = "record"
        /\ lock["master"] = {}

\* C6: when git clone or git pull fails, the failure propagates and both
\* cache.json and repo/ are the same after the failed refresh as before it.
C6_FailedRefreshLeavesCacheUntouched ==
    [][\A p \in Procs :
          (FetchStep(p) /\ status'[p] = "refresh_failed")
             => /\ pc'[p] = "exit"
                /\ meta' = meta
                /\ repo' = repo]_vars

\* C7: outside a running _update_metadata, cache.json is absent or a
\* complete record, also after a process was killed at any point: a later
\* staleness check never finds an empty or truncated file.
C7_MetadataNeverPartial ==
    \A b \in Branches :
        meta[b].kind = "truncated"
           => \E p \in Procs : pc[p] = "meta_dump" /\ Branch(p) = b /\ is_locked(p)

\* max_age a is at most max_age b (inf is the largest)
AgeLeq(a, b) == ~b.finite \/ (a.finite /\ a.secs <= b.secs)

\* the shared parts of C8: an invocation starts at most one git subprocess
\* and ends when it fails; a successful one stamps cache.json with the
\* current time and goes on to print
C8_NoRetryInside ==
    \A p \in Procs :
        /\ fetches[p] <= 1
        /\ status[p] = "refresh_failed" => pc[p] \in {"exit", "done"} /\ emitted[p] = 0

C8_SuccessStampsAndPrints(p) ==
    (pc[p] = "meta_dump" /\ pc'[p] # "meta_dump" /\ pc'[p] # "done")
       => /\ meta'[Branch(p)] = Record(cfg[p].git_uri, cfg[p].branch, now)
          /\ pc'[p] = "print_key"
          /\ status'[p] = "running"

\* C8 as stated: after an invocation whose refresh failed, the next
\* invocation with the same identity finds the cache stale and runs git.
C8_NextInvocationRetries ==
    /\ []C8_NoRetryInside
    /\ [][\A p \in Procs :
             /\ (/\ RefreshStep(p)
                 /\ lastFailed[Branch(p)] # NoConfig
                 /\ lastFailed[Branch(p)].git_uri = cfg[p].git_uri)
                   => pc'[p] \in {"clone", "pull"}
             /\ C8_SuccessStampsAndPrints(p)]_vars

\* C8 amended: ... the next invocation with the same identity and a max_age
\* no larger than that of the failed invocation finds the cache stale and
\* runs git; when git succeeds cache.json is stamped with the current time
\* and the invocation goes on to print.  No invocation runs git twice.
C8_NextInvocationRetriesSameAge ==
    /\ []C8_NoRetryInside
    /\ [][\A p \in Procs :
             /\ (/\ RefreshStep(p)
                 /\ lastFailed[Branch(p)] # NoConfig
                 /\ lastFailed[Branch(p)].git_uri = cfg[p].git_uri
                 /\ AgeLeq(cfg[p].max_age, lastFailed[Branch(p)].max_age))
                   => pc'[p] \in {"clone", "pull"}
             /\ C8_SuccessStampsAndPrints(p)]_vars

\* after a failed git pull on a cache with a record, the next invocation
\* found the cache stale again, pulled, and printed the path key
C8_Witness ==
    \E p, q \in Procs :
        /\ p # q
        /\ status[p] = "refresh_failed" /\ pc[p] = "done"
        /\ pc[q] = "iterate" /\ fetches[q] = 1 /\ emitted[q] = 1
        /\ cfg[q].max_age = [finite |-> TRUE, secs |-> MaxAge]
        /\ OwnRecord(q)
        /\ meta[Branch(q)].timestamp >= MaxAge

\* C9: a process that holds the lock leaves the with block and releases it
\* on every path (normal end, failed git, RuntimeError, error while
\* printing); a process that has ended holds no lock.
C9_LockReleased ==
    /\ [](\A p \in Procs :
             pc[p] \in {"idle", "acquire", "done"} => \A b \in Branches : p \notin lock[b])
    /\ \A p \in Procs :
          (pc[p] \in InScopePcs) ~> (pc[p] = "done" /\ \A b \in Branches : p \notin lock[b])

\* a holder whose refresh failed has ended, and the process that waited
\* now holds the lock
C9_Witness ==
    \E p, q \in Procs :
        /\ p # q
        /\ status[p] \in {"refresh_failed", "RuntimeError", "OSError"}
        /\ pc[p] = "done"
        /\ pc[q] = "refresh" /\ is_locked(q)

\* C10: with the lock held, outdated is True when cache.json is absent;
\* with a record of the same identity it is True iff
\* timestamp + max_age <= now (always, when max_age = 0).
C10_StalenessPredicate ==
    [][\A p \in Procs :
          (RefreshStep(p) /\ is_locked(p))
             => /\ meta[Branch(p)].kind = "absent" => pc'[p] \in {"clone", "pull"}
                /\ (OwnRecord(p) /\ cfg[p].max_age.finite)
                      => /\ pc'[p] \in {"clone", "pull", "print_key"}
                         /\ pc'[p] \in {"clone", "pull"}
                               <=> meta[Branch(p)].timestamp + cfg[p].max_age.secs <= now
                /\ (OwnRecord(p) /\ cfg[p].max_age = [finite |-> TRUE, secs |-> 0])
                      => pc'[p] \in {"clone", "pull"}]_vars

\* a record exactly max_age old was found stale
C10_Witness ==
    \E p \in Procs :
        /\ pc[p] = "pull" /\ fetches[p] = 0
        /\ cfg[p].max_age = [finite |-> TRUE, secs |-> MaxAge]
        /\ OwnRecord(p)
        /\ meta[Branch(p)].timestamp + MaxAge = now

\* C11: with max_age inf, once cache.json holds a record, no invocation of
\* that identity finds the cache stale or runs git again, whatever the time;
\* the record keeps the timestamp of the first successful refresh.
C11_InfiniteNeverStale ==
    /\ [][\A p \in Procs :
             (RefreshStep(p) /\ OwnRecord(p) /\ ~cfg[p].max_age.finite)
                => /\ pc'[p] = "print_key"
                   /\ fetches'[p] = 0
                   /\ meta' = meta]_vars
    /\ [][\A p \in Procs : FetchStep(p) => meta[Branch(p)].kind = "absent"]_vars
    /\ [][\A b \in Branches : meta[b].kind = "record" => meta'[b] = meta[b]]_vars

\* an invocation with max_age inf passed refresh without fetching, MaxTime
\* seconds after the refresh that wrote the record
C11_Witness ==
    \E p \in Procs :
        /\ pc[p] = "print_key" /\ fetches[p] = 0
        /\ ~cfg[p].max_age.finite
        /\ OwnRecord(p)
        /\ meta[Branch(p)].timestamp = 0 /\ now = MaxTime

\* the relative paths of the non-directory entries outside the top .git
Expected(t) ==
    {e.path : e \in {f \in t : ~is_dir(t, f) /\ f.path[1] # GitDir}}

\* the place of two paths in a top-down walk with sorted names: at the first
\* name they differ in, a file of the directory precedes everything in its
\* subdirectories, otherwise the lesser name precedes
Before(x, y) ==
    LET k == CHOOSE i \in 1..Len(x) :
                 /\ i <= Len(y)
                 /\ x[i] # y[i]
                 /\ \A j \in 1..(i - 1) : x[j] = y[j]
    IN  IF Len(x) = k /\ Len(y) > k THEN TRUE
        ELSE IF Len(x) > k /\ Len(y) = k THEN FALSE
        ELSE Rank(x[k]) < Rank(y[k])

\* a is b with some elements left out
RECURSIVE IsSubsequence(_, _)
IsSubsequence(a, b) ==
    IF a = <<>> THEN TRUE
    ELSE IF b = <<>> THEN FALSE
    ELSE IF a[1] = b[1] THEN IsSubsequence(Tail(a), Tail(b))
    ELSE IsSubsequence(a, Tail(b))

\* the absolute paths of a path sequence
RECURSIVE Absolute(_)
Absolute(paths) ==
    IF paths = <<>> THEN <<>>
    ELSE <<repo_path("master", paths[1])>> \o Absolute(Tail(paths))

Compiled == ConfigSelector(rule)

\* C12: get_paths yields a path of the cache's sequence, as the absolute path
\* below repo/, exactly if (recursion is on or the path is a top-level entry)
\* and the include matcher matches and (the exclude matcher does not match or
\* the re-include matcher matches); nothing else is yielded, so a path that
\* fails the include test is never yielded.
C12_SelectionRule ==
    \A i \in 1..Len(runs) :
        /\ \A rel \in Range(runs[i].paths) :
              repo_path("master", rel) \in Range(runs[i].out)
                <=> /\ rule.recurse \/ Len(rel) = 1
                    /\ search(Compiled.pattern, rel)
                    /\ ~search(Compiled.blacklist, rel) \/ search(Compiled.whitelist, rel)
        /\ \A a \in Range(runs[i].out) :
              \E rel \in Range(runs[i].paths) :
                  a = repo_path("master", rel) /\ search(Compiled.pattern, rel)

\* a selection with recursion off over sub/y.cfg, b.md and secret.cfg, in
\* which secret.cfg was excluded and re-included and the re-include matcher
\* matches b.md, which fails the include test
C12_Witness ==
    /\ Len(runs) > 0
    /\ ~rule.recurse
    /\ rule.pattern = <<CfgRe>> /\ rule.blacklist = <<SecretRe>>
    /\ rule.whitelist = <<CfgRe, SecretRe>>
    /\ {<<BMd>>, <<SecretCfg>>, <<Sub, YCfg>>} \subseteq Range(runs[1].paths)
    /\ runs[1].out = <<repo_path("master", <<SecretCfg>>)>>

\* C13: an empty include set matches every path, an empty exclude set
\* excludes no path, an empty re-include set re-includes no path, and with
\* an empty re-include set every path the exclude matcher matches is skipped.
C13_EmptySetDefaults ==
    \A i \in 1..Len(runs) :
        \A rel \in Range(runs[i].paths) :
            /\ rule.pattern = <<>> => search(Compiled.pattern, rel)
            /\ rule.blacklist = <<>> => ~search(Compiled.blacklist, rel)
            /\ rule.whitelist = <<>> => ~search(Compiled.whitelist, rel)
            /\ (rule.whitelist = <<>> /\ search(Compiled.blacklist, rel))
                  => repo_path("master", rel) \notin Range(runs[i].out)

\* C14: with content and rule fixed, all selections yield the same sequence
\* of include lines; it is the cache's path sequence with some paths left
\* out, in the same order; a selection changes neither content nor cache.
C14_DeterministicSelection ==
    /\ [](\A i, j \in 1..Len(runs) : runs[i].out = runs[j].out)
    /\ [](\A i \in 1..Len(runs) : IsSubsequence(runs[i].out, Absolute(runs[i].paths)))
    /\ [][Len(runs') > Len(runs) => UNCHANGED <<tree, rule, cacheVars>>]_vars

\* two selections over b.md, secret.cfg and sub/y.cfg that each left b.md
\* out and yielded the other two
C14_Witness ==
    /\ Len(runs) = MaxRuns
    /\ runs[1].paths = <<<<BMd>>, <<SecretCfg>>, <<Sub, YCfg>>>>
    /\ runs[MaxRuns].out = <<repo_path("master", <<SecretCfg>>),
                             repo_path("master", <<Sub, YCfg>>)>>

C16_AllOrNothingOutput ==
    \A p \in Procs :
        (pc[p] = "done" /\ status[p] # "killed") => (status[p] = "ok" \/ emitted[p] = 0)

\* C18: whenever cache.json holds a record, the git_uri it records is the
\* remote the content of repo/ was cloned from.
C18_MetadataMatchesContent ==
    \A b \in Branches :
        meta[b].kind = "record" => repo[b].origin = meta[b].git_uri

\* C19: a stale refresh runs exactly one git subprocess, git clone when
\* repo/.git does not exist at that moment and git pull otherwise; when it
\* succeeds _update_metadata writes the invoking identity and the current
\* time.
C19_CloneOrPull ==
    /\ [](\A p \in Procs :
             /\ fetches[p] <= 1
             /\ pc[p] \in {"clone", "pull"} => fetches[p] = 0
             /\ pc[p] \in {"meta_open", "meta_dump"} => fetches[p] = 1)
    /\ [][\A p \in Procs :
             FetchStep(p)
                => /\ pc[p] = "clone" <=> ~repo[Branch(p)].git
                   /\ (pc[p] = "clone" /\ pc'[p] = "meta_open")
                         => /\ repo'[Branch(p)].git
                            /\ repo'[Branch(p)].origin = cfg[p].git_uri
                            /\ repo'[Branch(p)].tree = "complete"]_vars
    /\ [][\A p \in Procs :
             (pc[p] = "meta_dump" /\ pc'[p] = "print_key")
                => meta'[Branch(p)] =
                      Record(cfg[p].git_uri, cfg[p].branch, now)]_vars

\* a stale record led to a git pull that succeeded; the new record is
\* about to be written
C19_Witness ==
    \E p \in Procs :
        /\ pc[p] = "meta_open" /\ fetches[p] = 1
        /\ OwnRecord(p)
        /\ repo[Branch(p)].git
        /\ meta[Branch(p)].timestamp + cfg[p].max_age.secs <= now

\* C20: git pull is only run in a repo/ that an earlier git clone populated
\* successfully; after a failed first clone the next stale refresh clones
\* again.
C20_PullOnlyAfterClone ==
    [][\A p \in Procs :
          (FetchStep(p) /\ pc[p] = "pull") => repo[Branch(p)].cloned]_vars

\* path x is directory d or lies below it
Under(x, d) == Len(x) >= Len(d) /\ SubSeq(x, 1, Len(d)) = d

\* the directory and the files ConfigCache creates or uses for branch b
CachePaths(b) == {work_path(b), meta_file(b), lock_file(b), repo_path(b, <<>>)}

\* nothing of branch b2 is a file of branch b1 or lies in its repo/
Separate(b1, b2) ==
    /\ lock_file(b1) # lock_file(b2)
    /\ meta_file(b1) # meta_file(b2)
    /\ \A x \in CachePaths(b2) :
          /\ ~Under(x, repo_path(b1, <<>>))
          /\ ~Under(x, meta_file(b1))
          /\ ~Under(x, lock_file(b1))

\* C17: two ConfigCache objects for distinct branch names under one
\* cache-root use separate lock files, separate cache.json files and
\* disjoint working directories, and a step of a process changes the lock,
\* cache.json and repo/ of its own branch only.
C17_BranchesIndependent ==
    /\ [](\A p, q \in Procs :
             (/\ pc[p] \notin {"idle", "done"}
              /\ pc[q] \notin {"idle", "done"}
              /\ Branch(p) # Branch(q))
                => Separate(Branch(p), Branch(q)) /\ Separate(Branch(q), Branch(p)))
    /\ [][\A b \in Branches :
             (lock'[b] # lock[b] \/ meta'[b] # meta[b] \/ repo'[b] # repo[b])
                => \E p \in Procs : cfg[p] # NoConfig /\ Branch(p) = b /\ pc'[p] # pc[p]]_vars

=============================================================================
